---- MODULE Spec2Model ----
(***************************************************************************)
(* Shader hot-reload core of grass-wgpu: the file watcher's event queue,   *)
(* collect_modified, the two PipelineHandlers (QuadPipeline and            *)
(* GrassPipeline), create_bundle / create_default_pipeline with the grass   *)
(* instance generation and the recorded commands, the keyboard Input, and  *)
(* the RedrawRequested frame of main.                                      *)
(*                                                                         *)
(* Paths are sequences of components, so that Path::ends_with and          *)
(* Path::join are computed the way std::path computes them.                *)
(***************************************************************************)
EXTENDS Naturals, Sequences, FiniteSets, TLC

VARIABLES
    pc,             \* position of the main thread (startup, frame steps)
    idx,            \* index into pipelines of the dispatch loop (main.rs:406)
    cwd,            \* the process's working directory
    disk,           \* file contents, by absolute path
    receiver,       \* FileWatcher.receiver: the items queued in the channel
    set,            \* collect_modified's local `set`
    changed,        \* the value collect_modified returned to main
    render_bundle,  \* each handler's render_bundle field
    rendered,       \* the bundles the frame's render pass executed
    control_flow,   \* winit's control flow, as the frame left it
    got,            \* history: the items this collect_modified call received
    at_call,        \* history: how many items were queued when it was called
    pre_bundle,     \* history: render_bundle at the start of the frame
    ever_built,     \* history: handlers for which a create_bundle returned Some
    frame_log,      \* history: the steps of the current frame, in order
    sender,         \* the channel's Sender, owned by the watcher's closure
    diagnostic,     \* the message of the panic that ended the process, if any
    calls,          \* history: the files_changed calls of the frame, with their set
    rng_left,       \* history: the generator as the last grass build dropped it
    outputs,        \* history: the instance data the grass builds generated
    pressed,        \* State.keyboard_input.pressed
    just_pressed,   \* State.keyboard_input.just_pressed
    just_released,  \* State.keyboard_input.just_released
    activated,      \* history: keys activated since the last Input::update
    deactivated,    \* history: keys deactivated since the last Input::update
    last_op         \* history: the last of activate / deactivate, by key

\* The fields of Input and the history of its calls.
inputvars == << pressed, just_pressed, just_released, activated, deactivated, last_op >>

vars == << pc, idx, cwd, disk, receiver, set, changed, render_bundle, rendered,
           control_flow, got, at_call, pre_bundle, ever_built, frame_log,
           sender, diagnostic, calls, rng_left, outputs, inputvars >>

(***************************************************************************)
(* Bounds of the model.                                                    *)
(***************************************************************************)
\* Items in flight in one poll cycle: queued, or received by the running drain.
MaxQueue == 2

(***************************************************************************)
(* Option values.                                                          *)
(***************************************************************************)
None == [tag |-> "None"]

Some(x) == [tag |-> "Some", val |-> x]

is_some(o) == o.tag = "Some"

\* The keys the model presses: three of those State::update reads.
Keys == { "W", "A", "S" }

(***************************************************************************)
(* Paths.                                                                  *)
(***************************************************************************)
\* A faulty ends_with, kept for comparison: it compares the file name alone.
ends_with_file_name(path, child) ==
    path # << >> /\ child # << >> /\ path[Len(path)] = child[Len(child)]

\* Path::ends_with: whole components only.
ends_with(path, child) ==
    /\ Len(child) <= Len(path)
    /\ SubSeq(path, Len(path) - Len(child) + 1, Len(path)) = child

\* Path::join of a relative path.
join(base, rel) == base \o rel

QUAD_VERT == << "assets", "shaders", "quad.vert" >>

GRASS_VERT == << "assets", "shaders", "grass.vert" >>

BLINN_PHONG_FRAG == << "assets", "shaders", "blinn_phong.frag" >>

\* FileWatcher.root: CARGO_MANIFEST_DIR, or the executable's directory.
root == << "R" >>

\* The directory FileWatcher::default watches recursively.
watch_path == join(root, << "assets" >>)

\* A working directory that is not the watch root (cargo run from a subdirectory).
OtherDir == << "R", "src" >>

WorkingDirs == { root, OtherDir }

ShaderFiles == { QUAD_VERT, GRASS_VERT, BLINN_PHONG_FRAG }

\* The shader files below the watch root: the ones an editor saves.
WatchedShaders == { join(root, f) : f \in ShaderFiles }

\* A watched file that is no handler's shader, though its file name is one.
UnrelatedPath == join(watch_path, << "textures", "quad.vert" >>)

WatchedPaths == WatchedShaders \cup { UnrelatedPath }

(***************************************************************************)
(* File contents and the shader compiler.                                  *)
(***************************************************************************)
ValidSources == { "srcA", "srcB" }

\* "unreadable": read_to_string fails; "bad": shaderc reports a compile error.
Contents == { "unreadable", "bad" } \cup ValidSources

\* What the editor saves to each watched shader in the model: every content for
\* quad.vert, one valid source and one kind of failure for the other two.
Saves(p) ==
    IF p = join(root, QUAD_VERT) THEN Contents
    ELSE IF p = join(root, GRASS_VERT) THEN { "srcA", "unreadable" }
    ELSE { "srcA", "bad" }

\* std::fs::read_to_string(path).ok(), a relative path resolved against cwd.
read_to_string(rel) ==
    LET p == join(cwd, rel)
    IN  IF p \in DOMAIN disk /\ disk[p] # "unreadable" THEN Some(disk[p]) ELSE None

\* A faulty compiler, kept for comparison: it accepts every source.
compile_shader_lenient(source_text, shader_kind) ==
    Some(<< "spirv", shader_kind, source_text >>)

\* compile_shader: Some(SPIR-V) when shaderc compiles the source, None (and a
\* logged error) otherwise.
compile_shader(source_text, shader_kind) ==
    IF source_text \in ValidSources
    THEN Some(<< "spirv", shader_kind, source_text >>)
    ELSE None

create_default_pipeline(vs_path, fs_path) ==
    LET vs_src == read_to_string(vs_path)
    IN  IF ~is_some(vs_src) THEN None
        ELSE LET vs_data == compile_shader(vs_src.val, "Vertex")
             IN  IF ~is_some(vs_data) THEN None
                 ELSE LET fs_src == read_to_string(fs_path)
                      IN  IF ~is_some(fs_src) THEN None
                          ELSE LET fs_data == compile_shader(fs_src.val, "Fragment")
                               IN  IF ~is_some(fs_data) THEN None
                                   ELSE Some([vertex   |-> vs_data.val,
                                              fragment |-> fs_data.val])

(***************************************************************************)
(* Handlers and their bundles.                                             *)
(***************************************************************************)
\* A faulty registration, kept for comparison: the grass before the quad.
pipelines_reversed == << "grass", "quad" >>

\* main's `pipelines`, in registration order.
pipelines == << "quad", "grass" >>

Handlers == { pipelines[i] : i \in DOMAIN pipelines }

vs_path(h) == IF h = "quad" THEN QUAD_VERT ELSE GRASS_VERT

\* The identity of a bundle is its label and id. A bundle created now is a new
\* GPU object: it differs from the one its handler still holds.
FreshId(h) ==
    IF is_some(render_bundle[h]) /\ render_bundle[h].val.id = 1 THEN 2 ELSE 1

\* The VERTICES of quad.rs (two triangles) and of grass.rs (one blade).
VERTICES(h) ==
    IF h = "quad"
    THEN << "(-0.5,0,-0.5)", "(0.5,0,0.5)", "(0.5,0,-0.5)",
            "(-0.5,0,-0.5)", "(-0.5,0,0.5)", "(0.5,0,0.5)" >>
    ELSE << "(0,1,0)", "(-0.5,0,0)", "(0.5,0,0)" >>

\* The one instance of the quad.
quad_instances == << [mat |-> "from_scale(2.0)", color |-> "(20/255, 40/255, 0, 1)"] >>

\* The iterations of the instance loop of grass.rs: stands for its 20000.
InstanceCount == 3

\* Hc128Rng::seed_from_u64: the generator after seeding. The generator is
\* modelled by a full-period congruential generator over 0..31.
seed_from_u64(seed) == (7 * seed + 1) % 32

\* One draw from the generator: the value drawn and the generator after it.
next_u32(rng) == [value |-> rng, rng |-> (5 * rng + 3) % 32]

pos_range == "Uniform(-1.0, 1.0)"

width_range == "Uniform(0.02, 0.04)"

height_range == "Uniform(0.04, 0.08)"

\* range.sample(&mut rng): the draw, scaled into the range.
sample(range, rng) ==
    LET d == next_u32(rng) IN [value |-> << range, d.value >>, rng |-> d.rng]

\* A faulty generator, kept for comparison: the one the build before left.
grass_rng_carried == IF is_some(rng_left) THEN rng_left.val ELSE seed_from_u64(0)

\* let mut rng = Hc128Rng::seed_from_u64(0): local to each create_bundle.
grass_rng == seed_from_u64(0)

\* The loop of grass.rs: n more instances pushed, each from four draws in the
\* order position x, position z, width, height.
RECURSIVE grass_loop(_, _, _)
grass_loop(n, instances, rng) ==
    IF n = 0 THEN [instances |-> instances, rng |-> rng]
    ELSE LET x == sample(pos_range, rng)
             z == sample(pos_range, x.rng)
             width == sample(width_range, z.rng)
             height == sample(height_range, width.rng)
         IN  grass_loop(n - 1,
                        Append(instances,
                               [translation |-> << x.value, "0.0", z.value >>,
                                scale |-> << width.value, height.value, width.value >>]),
                        height.rng)

\* The instances one execution of the grass create_bundle generates, and the
\* generator it drops when it returns.
grass_instances == grass_loop(InstanceCount, << >>, grass_rng)

\* The contents of the instance buffer.
instances_of(h) == IF h = "quad" THEN quad_instances ELSE grass_instances.instances

\* The two buffers create_bundle creates: the mesh and the instances.
vertex_buffer(h) == [label |-> "Vertex Buffer", len |-> Len(VERTICES(h))]

instance_buffer(h) == [label |-> "Instance Buffer", len |-> Len(instances_of(h))]

\* A faulty recording, kept for comparison: the two vertex buffers exchanged.
record_commands_exchanged(h, pipeline) ==
    << [op |-> "set_pipeline", pipeline |-> pipeline],
       [op |-> "set_vertex_buffer", slot |-> 0, buffer |-> instance_buffer(h)],
       [op |-> "set_vertex_buffer", slot |-> 1, buffer |-> vertex_buffer(h)],
       [op |-> "set_bind_group", index |-> 0, bind_group |-> "uniform_bind_group"],
       [op |-> "draw", vertices |-> << 0, Len(instances_of(h)) >>,
                       instances |-> << 0, Len(VERTICES(h)) >>] >>

\* The calls on the RenderBundleEncoder, in the order of the source.
record_commands(h, pipeline) ==
    << [op |-> "set_pipeline", pipeline |-> pipeline],
       [op |-> "set_vertex_buffer", slot |-> 0, buffer |-> vertex_buffer(h)],
       [op |-> "set_vertex_buffer", slot |-> 1, buffer |-> instance_buffer(h)],
       [op |-> "set_bind_group", index |-> 0, bind_group |-> "uniform_bind_group"],
       [op |-> "draw", vertices |-> << 0, Len(VERTICES(h)) >>,
                       instances |-> << 0, Len(instances_of(h)) >>] >>

\* create_bundle of quad.rs and of grass.rs: the ? on create_default_pipeline
\* returns None before the encoder exists; otherwise the bundle is the
\* finished encoder.
create_bundle(h) ==
    LET pipeline == create_default_pipeline(vs_path(h), BLINN_PHONG_FRAG)
    IN  IF ~is_some(pipeline) THEN None
        ELSE Some([label |-> h, pipeline |-> pipeline.val, id |-> FreshId(h),
                   commands |-> record_commands(h, pipeline.val)])

\* The history after an execution of h's create_bundle: the grass build has
\* generated its instances and dropped its generator.
rng_after(h) == IF h = "grass" THEN Some(grass_instances.rng) ELSE rng_left

outputs_after(h) ==
    IF h = "grass" THEN outputs \cup { grass_instances.instances } ELSE outputs

\* The condition of QuadPipeline::files_changed.
QuadMatches(paths) ==
    \E path \in paths :
        ends_with(path, QUAD_VERT) \/ ends_with(path, BLINN_PHONG_FRAG)

\* The condition of GrassPipeline::files_changed.
GrassMatches(paths) ==
    \E path \in paths :
        ends_with(path, GRASS_VERT) \/ ends_with(path, BLINN_PHONG_FRAG)

Matches(h, paths) == IF h = "quad" THEN QuadMatches(paths) ELSE GrassMatches(paths)

\* PipelineHandler::render_bundle.
current_bundle(h) == render_bundle[h]

(***************************************************************************)
(* The watcher's queue items: Result<notify::Event>.                       *)
(***************************************************************************)
Ev(kind, paths) == [ok |-> TRUE, kind |-> kind, paths |-> paths]

WatchError == [ok |-> FALSE, kind |-> "Error", paths |-> << >>]

ModifyKinds == { "Modify(Data)", "Modify(Metadata)", "Modify(Name)" }

OtherKinds == { "Create", "Remove", "Access", "Other" }

\* The pattern EventKind::Modify(_) of collect_modified.
IsModify(item) == item.ok /\ item.kind \in ModifyKinds

Range(s) == { s[i] : i \in DOMAIN s }

(***************************************************************************)
(* FileWatcher::collect_modified, one try_recv at a time: the watcher      *)
(* thread may send between two iterations of the loop.                     *)
(***************************************************************************)
\* A faulty loop body, kept for comparison: it extends for every kind of event.
extend_set_any_kind(s, event) ==
    Some((IF is_some(s) THEN s.val ELSE {}) \cup Range(event.paths))

\* Another faulty loop body, kept for comparison: it assigns the event's paths
\* where the source extends the set with them.
extend_set_replacing(s, event) ==
    IF IsModify(event) THEN Some(Range(event.paths)) ELSE s

\* The body of the loop for a received event: get_or_insert(..).extend(paths)
\* when the event is a Modify, nothing otherwise.
extend_set(s, event) ==
    IF IsModify(event)
    THEN Some((IF is_some(s) THEN s.val ELSE {}) \cup Range(event.paths))
    ELSE s

\* Two faulty receives, kept for comparison: one reports an empty queue whose
\* sender is gone as Empty, the other is recv, which waits on an empty queue.
try_recv_ignoring_disconnect(queue) ==
    IF queue = << >> THEN [tag |-> "Empty"] ELSE [tag |-> "Ok", res |-> Head(queue)]

recv(queue) ==
    IF queue = << >> THEN [tag |-> "Blocked"] ELSE [tag |-> "Ok", res |-> Head(queue)]

\* Receiver::try_recv on the queue: the items sent are received first, then an
\* empty queue is Disconnected when its sender is gone and Empty otherwise.
try_recv(queue) ==
    IF queue # << >> THEN [tag |-> "Ok", res |-> Head(queue)]
    ELSE IF sender = "dropped" THEN [tag |-> "Disconnected"]
    ELSE [tag |-> "Empty"]

\* A faulty send, kept for comparison: it overwrites what is queued.
send_overwriting(queue, res) == << res >>

\* Sender::send on the unbounded channel.
send(queue, res) == Append(queue, res)

\* The messages of the two panics of collect_modified.
UnwrapMessage == "called Result::unwrap() on an Err value"

DisconnectedMessage == "Filesystem watcher disconnected."

(***************************************************************************)
(* History of the current frame.                                           *)
(***************************************************************************)
Entry(op, h, ok) == [op |-> op, h |-> h, ok |-> ok]

Logged(op, h) == \E i \in DOMAIN frame_log : frame_log[i].op = op /\ frame_log[i].h = h

Count(op, h) ==
    Cardinality({ i \in DOMAIN frame_log : frame_log[i].op = op /\ frame_log[i].h = h })

(***************************************************************************)
(* Initial state: FileWatcher::default() and State::new have returned, the *)
(* watch is established, no handler is created yet.                        *)
(***************************************************************************)
\* The shader files as the repository ships them.
InitialDisk == [p \in WatchedShaders |-> "srcA"]

\* A copy of the shaders below a working directory that is not the root.
StaleCopy == [p \in { join(OtherDir, f) : f \in ShaderFiles } |-> "srcA"]

Init ==
    /\ pc = "create"
    /\ idx = 1
    /\ cwd \in WorkingDirs
    /\ \/ disk = InitialDisk
       \/ cwd = OtherDir /\ disk = InitialDisk @@ StaleCopy
    /\ receiver = << >>
    /\ set = None
    /\ changed = None
    /\ render_bundle = [h \in Handlers |-> None]
    /\ rendered = << >>
    /\ control_flow = "Poll"
    /\ got = << >>
    /\ at_call = 0
    /\ pre_bundle = [h \in Handlers |-> None]
    /\ ever_built = {}
    /\ frame_log = << >>
    /\ sender = "alive"
    /\ diagnostic = None
    /\ calls = << >>
    /\ rng_left = None
    /\ outputs = {}
    /\ pressed = {}
    /\ just_pressed = {}
    /\ just_released = {}
    /\ activated = {}
    /\ deactivated = {}
    /\ last_op = [k \in Keys |-> "none"]

Running == pc \notin { "panicked", "exited" }

(***************************************************************************)
(* The environment: the editor and the watcher thread.                     *)
(***************************************************************************)
\* A save of a watched shader file (or its removal).
FsWrite(p, c) ==
    /\ Running
    /\ disk[p] # c
    /\ disk' = [disk EXCEPT ![p] = c]
    /\ UNCHANGED << pc, idx, cwd, receiver, set, changed, render_bundle, rendered,
                    control_flow, got, at_call, pre_bundle, ever_built, frame_log,
                    sender, diagnostic, calls, rng_left, outputs, inputvars >>

\* The closure given to Watcher::new_immediate: sender.send(res).
WatcherCallback(res) ==
    /\ Running
    /\ sender = "alive"
    /\ Len(receiver) + Len(got) < MaxQueue
    /\ receiver' = send(receiver, res)
    /\ UNCHANGED << pc, idx, cwd, disk, set, changed, render_bundle, rendered,
                    control_flow, got, at_call, pre_bundle, ever_built, frame_log,
                    sender, diagnostic, calls, rng_left, outputs, inputvars >>

\* The watcher's thread ends: the closure, and the Sender it owns, are dropped.
WatcherStops ==
    /\ Running
    /\ sender = "alive"
    /\ sender' = "dropped"
    /\ UNCHANGED << pc, idx, cwd, disk, receiver, set, changed, render_bundle,
                    rendered, control_flow, got, at_call, pre_bundle, ever_built,
                    frame_log, diagnostic, calls, rng_left, outputs,
                    inputvars >>

(***************************************************************************)
(* Input<VirtualKeyCode>: its three methods, its three queries, and the    *)
(* window event that reaches it.                                           *)
(***************************************************************************)
activate(value) ==
    /\ pressed' = pressed \cup { value }
    /\ just_pressed' = just_pressed \cup { value }
    /\ UNCHANGED just_released

deactivate(value) ==
    /\ pressed' = pressed \ { value }
    /\ just_released' = just_released \cup { value }
    /\ UNCHANGED just_pressed

\* Input::update, called at the end of State::update.
update ==
    /\ just_pressed' = {}
    /\ just_released' = {}
    /\ UNCHANGED pressed

Input_pressed(value) == value \in pressed

Input_just_pressed(value) == value \in just_pressed

\* As the source has it: just_released looks the key up in just_pressed.
Input_just_released(value) == value \in just_pressed

ElementStates == { "Pressed", "Released" }

\* WindowEvent::KeyboardInput, delivered between two frames:
\* State::keyboard_input_event.
KeyboardInput(key, state) ==
    /\ pc = "update"
    /\ IF state = "Pressed"
       THEN /\ activate(key)
            /\ activated' = activated \cup { key }
            /\ last_op' = [last_op EXCEPT ![key] = "activate"]
            /\ UNCHANGED deactivated
       ELSE /\ deactivate(key)
            /\ deactivated' = deactivated \cup { key }
            /\ last_op' = [last_op EXCEPT ![key] = "deactivate"]
            /\ UNCHANGED activated
    /\ UNCHANGED << pc, idx, cwd, disk, receiver, set, changed, render_bundle,
                    rendered, control_flow, got, at_call, pre_bundle, ever_built,
                    frame_log, sender, diagnostic, calls, rng_left,
                    outputs >>

(***************************************************************************)
(* main: the creation of the handlers.                                     *)
(***************************************************************************)
\* QuadPipeline::create, then GrassPipeline::create (main.rs:356, 361).
Create ==
    /\ pc = "create"
    /\ LET h == pipelines[idx]
           bundle == create_bundle(h)
       IN  /\ render_bundle' = [render_bundle EXCEPT ![h] = bundle]
           /\ ever_built' = IF is_some(bundle) THEN ever_built \cup { h } ELSE ever_built
           /\ rng_left' = rng_after(h)
           /\ outputs' = outputs_after(h)
    /\ IF idx < Len(pipelines)
       THEN idx' = idx + 1 /\ pc' = pc
       ELSE idx' = 1 /\ pc' = "update"
    /\ UNCHANGED << cwd, disk, receiver, set, changed, rendered, control_flow,
                    got, at_call, pre_bundle, frame_log, sender, diagnostic, calls,
                    inputvars >>

(***************************************************************************)
(* main: Event::RedrawRequested.                                           *)
(***************************************************************************)
\* The frame is over: the loop runs on, or stops when the frame asked to exit.
AfterFrame == IF control_flow = "Exit" THEN "exited" ELSE "update"

\* A faulty order, kept for comparison: the reload runs before the render.
step_after_reload_first(step) ==
    IF step = "update" THEN "collect"
    ELSE IF step = "reload" THEN "render"
    ELSE AfterFrame

\* The order of the statements of the RedrawRequested arm: state.update, then
\* state.render, then the reload (collect_modified and the dispatch).
step_after(step) ==
    IF step = "update" THEN "render"
    ELSE IF step = "render" THEN "collect"
    ELSE AfterFrame

\* State::update: the write of the uniform buffer, then Input::update. The
\* callback has set control_flow to Poll (main.rs:366).
Update ==
    /\ pc = "update"
    /\ pc' = step_after("update")
    /\ control_flow' = "Poll"
    /\ frame_log' = << Entry("write_buffer", "-", TRUE) >>
    /\ pre_bundle' = render_bundle
    /\ rendered' = << >>
    /\ got' = << >>
    /\ at_call' = 0
    /\ changed' = None
    /\ calls' = << >>
    /\ update
    /\ activated' = {}
    /\ deactivated' = {}
    /\ UNCHANGED << idx, cwd, disk, receiver, set, render_bundle, ever_built,
                    sender, diagnostic, rng_left, outputs, last_op >>

SwapChainResults == { "Ok", "Lost", "OutOfMemory", "Outdated", "Timeout" }

\* A faulty filter_map, kept for comparison: it stops at the first None.
RECURSIVE filter_map_until_none(_)
filter_map_until_none(hs) ==
    IF hs = << >> THEN << >>
    ELSE LET b == current_bundle(Head(hs))
         IN  IF is_some(b) THEN << b.val >> \o filter_map_until_none(Tail(hs)) ELSE << >>

\* pipelines.iter_mut().filter_map(|p| p.render_bundle(..)): the bundles executed.
RECURSIVE filter_map(_)
filter_map(hs) ==
    IF hs = << >> THEN << >>
    ELSE LET b == current_bundle(Head(hs))
         IN  (IF is_some(b) THEN << b.val >> ELSE << >>) \o filter_map(Tail(hs))

\* A faulty match, kept for comparison: an Err of render ends the frame.
next_after_render_skipping(res) ==
    IF res = "Ok" THEN step_after("render")
    ELSE IF res = "OutOfMemory" THEN "exited"
    ELSE "update"

\* The match on render's result: no arm returns, every arm falls through to
\* the statement after the match.
next_after_render(res) == step_after("render")

\* State::render and the match on its result.
Render(results) ==
    /\ pc = "render"
    /\ \E res \in results :
          /\ rendered' = IF res = "Ok" THEN filter_map(pipelines) ELSE << >>
          /\ control_flow' = IF res = "OutOfMemory" THEN "Exit" ELSE control_flow
          /\ frame_log' = Append(frame_log, Entry("render", "-", res = "Ok"))
          /\ pc' = next_after_render(res)
    /\ UNCHANGED << idx, cwd, disk, receiver, set, changed, render_bundle,
                    got, at_call, pre_bundle, ever_built,
                    sender, diagnostic, calls, rng_left, outputs, inputvars >>

\* The call of collect_modified: let mut set = None.
CollectBegin ==
    /\ pc = "collect"
    /\ pc' = "try_recv"
    /\ set' = None
    /\ got' = << >>
    /\ at_call' = Len(receiver)
    /\ frame_log' = Append(frame_log, Entry("collect_modified", "-", TRUE))
    /\ UNCHANGED << idx, cwd, disk, receiver, changed, render_bundle, rendered,
                    control_flow, pre_bundle, ever_built,
                    sender, diagnostic, calls, rng_left, outputs, inputvars >>

\* A faulty test, kept for comparison: main dispatches whatever was returned.
dispatches_always(result) == TRUE

\* `if let Some(changed) = file_watcher.collect_modified()`: whether main
\* dispatches the result to the handlers.

dispatches(result) == is_some(result)

\* A faulty unwrap, kept for comparison: it lets an Err pass.
unwrap_never_panics(res) == FALSE

\* res.unwrap() on the item received: whether it panics.
unwrap_panics(res) == ~res.ok

\* One iteration of collect_modified's loop: on Ok the item is taken off the
\* queue (and unwrapped); once try_recv has returned an error, the function
\* returns on Empty and panics on Disconnected.
TryRecv ==
    /\ pc = "try_recv"
    /\ LET r == try_recv(receiver)
       IN  IF r.tag = "Ok"
           THEN /\ receiver' = Tail(receiver)
                /\ got' = Append(got, r.res)
                /\ IF ~unwrap_panics(r.res)
                   THEN set' = extend_set(set, r.res) /\ pc' = pc
                        /\ diagnostic' = diagnostic
                   ELSE \* res.unwrap() panics
                        set' = set /\ pc' = "panicked"
                        /\ diagnostic' = Some(UnwrapMessage)
                /\ UNCHANGED changed
           ELSE /\ r.tag \in { "Empty", "Disconnected" }
                /\ UNCHANGED << receiver, got >>
                /\ IF r.tag = "Empty"
                   THEN /\ changed' = set
                        /\ pc' = IF dispatches(set) THEN "dispatch"
                                  ELSE step_after("reload")
                        /\ set' = None
                        /\ diagnostic' = diagnostic
                   ELSE /\ pc' = "panicked"
                        /\ diagnostic' = Some(DisconnectedMessage)
                        /\ UNCHANGED << set, changed >>
    /\ UNCHANGED << idx, cwd, disk, render_bundle, rendered, control_flow,
                    at_call, pre_bundle, ever_built, frame_log, sender, calls,
                    rng_left, outputs, inputvars >>

\* Two faulty files_changed, kept for comparison: one assigns the result of the
\* build unchecked, the other drops it.
files_changed_unchecked(h, paths) ==
    IF Matches(h, paths) THEN create_bundle(h) ELSE render_bundle[h]

files_changed_dropped(h, paths) == render_bundle[h]

\* The slot after files_changed: replaced only by a bundle that was built.
files_changed(h, paths) ==
    IF Matches(h, paths)
    THEN LET bundle == create_bundle(h)
         IN  IF is_some(bundle) THEN bundle ELSE render_bundle[h]
    ELSE render_bundle[h]

\* A faulty loop, kept for comparison: it ends after the first handler.
for_next_first_only(i) == 0

\* `for pipeline in pipelines.iter_mut()`: the index after i, 0 when the loop ends.

for_next(i) == IF i < Len(pipelines) THEN i + 1 ELSE 0

\* The paths main hands to the handlers.
ChangedPaths == IF is_some(changed) THEN changed.val ELSE {}

\* One iteration of the dispatch loop: pipeline.files_changed(&mut state, &changed).
Dispatch ==
    /\ pc = "dispatch"
    /\ LET h == pipelines[idx]
           attempt == Matches(h, ChangedPaths)
           built == attempt /\ is_some(create_bundle(h))
       IN  /\ render_bundle' = [render_bundle EXCEPT ![h] = files_changed(h, ChangedPaths)]
           /\ ever_built' = IF built THEN ever_built \cup { h } ELSE ever_built
           /\ frame_log' = frame_log \o << Entry("files_changed", h, TRUE) >>
                  \o (IF attempt THEN << Entry("create_bundle", h, built) >> ELSE << >>)
           /\ calls' = Append(calls, [h |-> h, changed |-> ChangedPaths])
           /\ rng_left' = IF attempt THEN rng_after(h) ELSE rng_left
           /\ outputs' = IF attempt THEN outputs_after(h) ELSE outputs
    /\ IF for_next(idx) # 0
       THEN idx' = for_next(idx) /\ pc' = pc
       ELSE idx' = 1 /\ pc' = step_after("reload")
    /\ UNCHANGED << cwd, disk, receiver, set, changed, rendered, control_flow,
                    got, at_call, pre_bundle, sender, diagnostic, inputvars >>

(***************************************************************************)
(* The program with its environment.                                       *)
(***************************************************************************)
Program(results) ==
    \/ Create
    \/ Update
    \/ Render(results)
    \/ CollectBegin
    \/ TryRecv
    \/ Dispatch

\* Spec: the reload path. The editor saves shaders and the watcher reports
\* modifications; the swap chain and the watcher are healthy.
Events == { Ev("Modify(Data)", << p >>) : p \in WatchedShaders }

Next ==
    \/ Program({ "Ok" })
    \/ \E p \in WatchedShaders : \E c \in Saves(p) : FsWrite(p, c)
    \/ \E res \in Events : WatcherCallback(res)

Spec == Init /\ [][Next]_vars

\* SpecEnv: the frame under every kind of event, watcher errors and swap chain
\* errors, with the shader files at rest.
EnvEvents ==
    { Ev("Modify(Data)", << join(root, QUAD_VERT) >>),
      Ev("Modify(Data)", << UnrelatedPath >>),
      Ev("Modify(Metadata)", << join(root, BLINN_PHONG_FRAG) >>),
      Ev("Modify(Name)", << UnrelatedPath, join(root, GRASS_VERT) >>),
      WatchError }
        \cup { Ev(k, << join(root, QUAD_VERT) >>) : k \in OtherKinds }

NextEnv ==
    \/ Program(SwapChainResults)
    \/ \E res \in EnvEvents : WatcherCallback(res)

SpecEnv == Init /\ [][NextEnv]_vars

\* SpecBuild: the builds. The editor saves quad.vert and the shared fragment
\* shader, and the watcher reports both.
BuildFiles == { join(root, QUAD_VERT), join(root, BLINN_PHONG_FRAG) }

BuildEvents == { Ev("Modify(Data)", << p >>) : p \in BuildFiles }

NextBuild ==
    \/ Program({ "Ok" })
    \/ \E p \in BuildFiles : \E c \in Saves(p) : FsWrite(p, c)
    \/ \E res \in BuildEvents : WatcherCallback(res)

SpecBuild == Init /\ [][NextBuild]_vars

\* SpecStartup: the program from its start to the end of its first frame. The
\* editor saves quad.vert; the watcher, whose watch FileWatcher::default has
\* established before the handlers are created, reports the two vertex shaders
\* and errors.
FirstFrameOver == frame_log # << >> /\ pc = "update"

StartupEvents ==
    { Ev("Modify(Data)", << join(root, QUAD_VERT) >>),
      Ev("Modify(Data)", << join(root, GRASS_VERT) >>),
      WatchError }

NextStartup ==
    \/ Create
    \/ ~FirstFrameOver /\ Update
    \/ Render({ "Ok" })
    \/ CollectBegin
    \/ TryRecv
    \/ Dispatch
    \/ ~FirstFrameOver /\ \E c \in ValidSources : FsWrite(join(root, QUAD_VERT), c)
    \/ ~FirstFrameOver /\ \E res \in StartupEvents : WatcherCallback(res)

SpecStartup == Init /\ [][NextStartup]_vars

\* SpecInput: the frame with the keyboard; the watcher reports quad.vert.
NextInput ==
    \/ Program({ "Ok" })
    \/ \E key \in Keys : \E state \in ElementStates : KeyboardInput(key, state)
    \/ WatcherCallback(Ev("Modify(Data)", << join(root, QUAD_VERT) >>))

SpecInput == Init /\ [][NextInput]_vars

\* SpecDrain: the render thread runs on (it is the process's main thread, and
\* each of its steps returns), the watcher sends while it does.
DrainEvents ==
    { Ev("Modify(Data)", << join(root, QUAD_VERT) >>),
      Ev("Create", << join(root, GRASS_VERT) >>),
      WatchError }

NextDrain ==
    \/ Program({ "Ok" })
    \/ \E res \in DrainEvents : WatcherCallback(res)
    \/ WatcherStops

SpecDrain == Init /\ [][NextDrain]_vars /\ WF_vars(Program({ "Ok" }))

(***************************************************************************)
(* Vocabulary of the properties, stated without the operators above.       *)
(***************************************************************************)
\* The frame has started (State::update has run).
InFrame == frame_log # << >>

LoggedAs(op, h, ok) ==
    \E i \in DOMAIN frame_log :
        frame_log[i].op = op /\ frame_log[i].h = h /\ frame_log[i].ok = ok

\* collect_modified has returned to main in this frame.
Returned == Logged("collect_modified", "-") /\ pc \in { "dispatch", "update", "exited" }

\* The dispatch loop of this frame has run to its end.
DispatchDone == Returned /\ is_some(changed) /\ pc \in { "update", "exited" }

\* The main thread takes the step (not the editor, not the watcher).
MainStep == pc' # pc \/ idx' # idx

\* path ends with the components assets/shaders/<name>.
EndsWithShader(path, name) ==
    /\ Len(path) >= 3
    /\ path[Len(path) - 2] = "assets"
    /\ path[Len(path) - 1] = "shaders"
    /\ path[Len(path)] = name

ShaderPair(h) ==
    IF h = "quad" THEN { "quad.vert", "blinn_phong.frag" }
    ELSE { "grass.vert", "blinn_phong.frag" }

Triggers(h, paths) ==
    \E path \in paths : \E name \in ShaderPair(h) : EndsWithShader(path, name)

\* The two files of h below the watch root.
WatchedVs(h) == join(root, vs_path(h))

WatchedFs == join(root, BLINN_PHONG_FRAG)

\* The pipeline a build from the sources at the watched paths yields.
PipelineOfWatched(h) ==
    [vertex   |-> << "spirv", "Vertex", disk[WatchedVs(h)] >>,
     fragment |-> << "spirv", "Fragment", disk[WatchedFs] >>]

WatchedValid(h) == disk[WatchedVs(h)] \in ValidSources /\ disk[WatchedFs] \in ValidSources

\* A bundle whose build has finished: both stages compiled, labelled, identified.
Complete(b) ==
    /\ b.label \in Handlers
    /\ b.id \in { 1, 2 }
    /\ \E v \in ValidSources : b.pipeline.vertex = << "spirv", "Vertex", v >>
    /\ \E f \in ValidSources : b.pipeline.fragment = << "spirv", "Fragment", f >>

Replayed(h) == \E i \in DOMAIN rendered : rendered[i].label = h

\* What a drain of `items` is to return: the union of the Modify events' paths.
ExpectedSet(items) ==
    LET mods == { i \in DOMAIN items : items[i].ok /\ items[i].kind \in ModifyKinds }
    IN  IF mods = {} THEN None ELSE Some(UNION { Range(items[i].paths) : i \in mods })

(***************************************************************************)
(* C1 -- Failure preserves last-good: when files_changed matched and       *)
(* create_bundle returned None, the handler's slot is exactly what it was  *)
(* before the call, and the call returns normally (no panic).              *)
(***************************************************************************)
C1_FailurePreservesLastGood ==
    \A h \in Handlers :
        LoggedAs("create_bundle", h, FALSE) =>
            /\ render_bundle[h] = pre_bundle[h]
            /\ Logged("files_changed", h)
            /\ pc # "panicked"

C1_Witness ==
    \E h \in Handlers :
        /\ LoggedAs("create_bundle", h, FALSE)
        /\ is_some(pre_bundle[h])
        /\ render_bundle[h] = pre_bundle[h]

(***************************************************************************)
(* C2 -- Atomic swap: a matching files_changed whose create_bundle returns *)
(* Some(b) leaves b in the slot; the slot changes only by such a finished  *)
(* build; and a render step executes only complete bundles, the ones that  *)
(* were current when the frame began.                                      *)
(***************************************************************************)
C2_Step ==
    /\ \A h \in Handlers :
          ( /\ pc = "dispatch" /\ MainStep /\ pipelines[idx] = h
            /\ Triggers(h, ChangedPaths)
            /\ is_some(create_bundle(h)) )
          => render_bundle'[h] = create_bundle(h)
    /\ \A h \in Handlers :
          render_bundle'[h] # render_bundle[h] =>
             /\ MainStep
             /\ pc \in { "create", "dispatch" }
             /\ pipelines[idx] = h
             /\ is_some(create_bundle(h))
             /\ render_bundle'[h] = create_bundle(h)
             /\ Complete(render_bundle'[h].val)
    /\ (pc = "render" /\ pc' # pc) =>
          \A i \in DOMAIN rendered' :
              /\ Complete(rendered'[i])
              /\ Some(rendered'[i]) = pre_bundle[rendered'[i].label]

C2_AtomicSwap == [][C2_Step]_vars

C2_Witness ==
    \E h \in Handlers :
        /\ LoggedAs("create_bundle", h, TRUE)
        /\ is_some(pre_bundle[h])
        /\ render_bundle[h] # pre_bundle[h]
        /\ Replayed(h)

(***************************************************************************)
(* C3 -- Suffix matching: a handler attempts a rebuild iff some changed    *)
(* path ends with assets/shaders/<one of its two shader files>; a set of   *)
(* only <prefix>/assets/shaders/quad.vert rebuilds the quad and not the    *)
(* grass, a set of only unrelated paths rebuilds neither.                  *)
(***************************************************************************)
C3_SuffixMatching ==
    /\ \A h \in Handlers :
          Logged("files_changed", h) =>
              (Logged("create_bundle", h) <=> Triggers(h, ChangedPaths))
    /\ (DispatchDone /\ changed = Some({ << "R", "assets", "shaders", "quad.vert" >> })) =>
          Logged("create_bundle", "quad") /\ ~Logged("create_bundle", "grass")
    /\ (DispatchDone /\ changed = Some({ UnrelatedPath })) =>
          ~Logged("create_bundle", "quad") /\ ~Logged("create_bundle", "grass")

C3_Witness ==
    /\ DispatchDone
    /\ changed = Some({ UnrelatedPath, << "R", "assets", "shaders", "grass.vert" >> })
    /\ Logged("create_bundle", "grass")
    /\ ~Logged("create_bundle", "quad")

(***************************************************************************)
(* C4 -- Drain result, as amended: when collect_modified returns, every    *)
(* item that was queued when it was called has been removed, and it        *)
(* returns Some(S), S the union of the path lists of the Modify events it  *)
(* received (those queued at the call and those sent while it ran), or     *)
(* None when it received no Modify event; other kinds contribute nothing.  *)
(* (On a queued watcher error the call panics and returns nothing.)        *)
(***************************************************************************)
C4_DrainResult ==
    Returned => changed = ExpectedSet(got) /\ Len(got) >= at_call

C4_Witness ==
    /\ Returned
    /\ is_some(changed)
    /\ \E i \in DOMAIN got :
          /\ got[i].kind \in OtherKinds
          /\ ~(Range(got[i].paths) \subseteq changed.val)

(***************************************************************************)
(* C4, as stated: the returned set is the union over the Modify events     *)
(* that were queued at the time of the call.                               *)
(***************************************************************************)
C4_QueuedAtCall ==
    Returned =>
        /\ Len(got) >= at_call
        /\ changed = ExpectedSet(SubSeq(got, 1, at_call))

(***************************************************************************)
(* C5 -- Idempotent no-op: in a frame where collect_modified returned      *)
(* None no files_changed is called, no bundle is built, and every slot is  *)
(* the very bundle it was when the frame began.                            *)
(***************************************************************************)
C5_IdempotentNoOp ==
    (Returned /\ changed = None) =>
        /\ pc \in { "update", "exited" }
        /\ \A h \in Handlers :
              /\ ~Logged("files_changed", h)
              /\ ~Logged("create_bundle", h)
              /\ render_bundle[h] = pre_bundle[h]

C5_Witness ==
    /\ Returned
    /\ changed = None
    /\ got # << >>
    /\ \A h \in Handlers : is_some(render_bundle[h])

(***************************************************************************)
(* C6 -- render_bundle() is None iff no create_bundle made for the handler *)
(* ever returned Some; a render pass replays exactly the handlers whose    *)
(* slot is Some: a None slot contributes nothing and hides no other.       *)
(***************************************************************************)
C6_NoneIffNeverBuilt ==
    /\ \A h \in Handlers : ~is_some(current_bundle(h)) <=> h \notin ever_built
    /\ LoggedAs("render", "-", TRUE) =>
          /\ \A h \in Handlers : Replayed(h) <=> is_some(pre_bundle[h])
          /\ \A i \in DOMAIN rendered : Some(rendered[i]) = pre_bundle[rendered[i].label]
          /\ Len(rendered) = Cardinality({ h \in Handlers : is_some(pre_bundle[h]) })

C6_Witness ==
    /\ LoggedAs("render", "-", TRUE)
    /\ ~is_some(pre_bundle["quad"])
    /\ "quad" \notin ever_built
    /\ Replayed("grass")
    /\ ~Replayed("quad")

(***************************************************************************)
(* C7 -- Handler independence: a slot differs from its value at the start  *)
(* of the frame only by its own handler's successful build, and a failed   *)
(* rebuild of one handler does not keep the others from being notified     *)
(* once each and from attempting their rebuild.                            *)
(***************************************************************************)
C7_HandlerIndependence ==
    \A h \in Handlers :
        /\ (InFrame /\ ~LoggedAs("create_bundle", h, TRUE)) =>
              render_bundle[h] = pre_bundle[h]
        /\ DispatchDone =>
              /\ Count("files_changed", h) = 1
              /\ Triggers(h, ChangedPaths) => Logged("create_bundle", h)

C7_Witness ==
    /\ DispatchDone
    /\ LoggedAs("create_bundle", "quad", FALSE)
    /\ LoggedAs("create_bundle", "grass", TRUE)
    /\ render_bundle["quad"] = pre_bundle["quad"]
    /\ render_bundle["grass"] # pre_bundle["grass"]

(***************************************************************************)
(* C8 -- Reload response, as stated: when a handler is notified of a       *)
(* Modify of one of its shader files below the watch root and the sources  *)
(* at the watched paths are valid, its slot is afterwards Some, a new      *)
(* bundle, built from the content at the watched paths.                    *)
(***************************************************************************)
C8_Step ==
    \A h \in Handlers :
        ( /\ pc = "dispatch" /\ MainStep /\ pipelines[idx] = h
          /\ ChangedPaths \cap { WatchedVs(h), WatchedFs } # {}
          /\ WatchedValid(h) )
        => /\ is_some(render_bundle'[h])
           /\ render_bundle'[h] # render_bundle[h]
           /\ render_bundle'[h].val.pipeline = PipelineOfWatched(h)

C8_ReloadResponse == [][C8_Step]_vars

(***************************************************************************)
(* C9 -- Deduplication, as stated: when several Modify events for the same *)
(* shader path were drained in one frame, the change set holds the path    *)
(* once, the matching handler calls create_bundle exactly once, and the    *)
(* bundle that rebuild installs reflects the last-written content of the   *)
(* file.                                                                   *)
(***************************************************************************)
Duplicated(h) ==
    \E i, j \in DOMAIN got :
        /\ i < j
        /\ IsModify(got[i]) /\ IsModify(got[j])
        /\ Range(got[i].paths) \cap Range(got[j].paths) \cap { WatchedVs(h), WatchedFs } # {}

C9_Step ==
    \A h \in Handlers :
        (pc = "dispatch" /\ MainStep /\ pipelines[idx] = h /\ Duplicated(h)) =>
            /\ Count("create_bundle", h)' = 1
            /\ render_bundle'[h] # render_bundle[h] =>
                  render_bundle'[h].val.pipeline = PipelineOfWatched(h)

C9_Deduplication == [][C9_Step]_vars

(***************************************************************************)
(* C10 -- Frame ordering: in every frame the uniform buffer is written     *)
(* once, then the render runs once, then the queue is drained once, then   *)
(* the handlers are notified; no slot changes before the drain, so the     *)
(* render executes the bundles the frame began with and a bundle built in  *)
(* frame N is first executed by the render of frame N+1.                   *)
(***************************************************************************)
Rank(e) ==
    IF e.op = "write_buffer" THEN 1
    ELSE IF e.op = "render" THEN 2
    ELSE IF e.op = "collect_modified" THEN 3
    ELSE 4

C10_FrameOrdering ==
    /\ \A i, j \in DOMAIN frame_log : i < j => Rank(frame_log[i]) <= Rank(frame_log[j])
    /\ \A op \in { "write_buffer", "render", "collect_modified" } : Count(op, "-") <= 1
    /\ InFrame => frame_log[1].op = "write_buffer"
    /\ Logged("collect_modified", "-") => Logged("render", "-")
    /\ (\E h \in Handlers : Logged("files_changed", h)) => Returned
    /\ (InFrame /\ ~Logged("collect_modified", "-")) => render_bundle = pre_bundle
    /\ \A i \in DOMAIN rendered : Some(rendered[i]) = pre_bundle[rendered[i].label]

C10_Witness ==
    /\ DispatchDone
    /\ LoggedAs("create_bundle", "quad", TRUE)
    /\ Replayed("quad")
    /\ \E i \in DOMAIN rendered : Some(rendered[i]) # render_bundle["quad"]

(***************************************************************************)
(* C11 -- Watcher disconnect is fatal: when collect_modified finds the     *)
(* queue empty and its sender gone, the process ends with the diagnostic   *)
(* "Filesystem watcher disconnected."; nothing is returned or dispatched,  *)
(* no call returns once the sender is gone, and a process that has         *)
(* panicked takes no further step.                                         *)
(***************************************************************************)
C11_Step ==
    /\ (pc = "try_recv" /\ receiver = << >> /\ sender = "dropped") =>
          /\ pc' = "panicked"
          /\ diagnostic' = Some("Filesystem watcher disconnected.")
          /\ changed' = changed
          /\ render_bundle' = render_bundle
          /\ frame_log' = frame_log
    /\ (pc = "try_recv" /\ sender = "dropped") => pc' \in { "try_recv", "panicked" }
    /\ pc # "panicked"

C11_DisconnectFatal == [][C11_Step]_vars

C11_Witness ==
    /\ pc = "panicked"
    /\ diagnostic = Some("Filesystem watcher disconnected.")
    /\ sender = "dropped"
    /\ got # << >>

(***************************************************************************)
(* C12 -- Build result: create_default_pipeline, and so create_bundle,     *)
(* returns Some iff the vertex shader file and the fragment shader file    *)
(* it is given are both there, readable and compile; a build that fails    *)
(* leaves every slot and the process as they were; a build that succeeds   *)
(* yields the pipeline of the two sources read.                            *)
(***************************************************************************)
\* The file a relative path names is there, readable, and compiles.
SourceOk(rel) ==
    LET p == cwd \o rel
    IN  p \in DOMAIN disk /\ disk[p] \in { "srcA", "srcB" }

VsFile(h) ==
    IF h = "quad" THEN << "assets", "shaders", "quad.vert" >>
    ELSE << "assets", "shaders", "grass.vert" >>

FsFile == << "assets", "shaders", "blinn_phong.frag" >>

\* This step of the main thread executes h's create_bundle.
Builds(h) ==
    /\ MainStep
    /\ pipelines[idx] = h
    /\ pc = "create" \/ (pc = "dispatch" /\ Triggers(h, ChangedPaths))

C12_Step ==
    /\ \A vs, fs \in ShaderFiles :
          is_some(create_default_pipeline(vs, fs)) <=> (SourceOk(vs) /\ SourceOk(fs))
    /\ \A h \in Handlers :
          /\ is_some(create_bundle(h)) <=> (SourceOk(VsFile(h)) /\ SourceOk(FsFile))
          /\ (Builds(h) /\ ~(SourceOk(VsFile(h)) /\ SourceOk(FsFile))) =>
                /\ render_bundle' = render_bundle
                /\ rendered' = rendered
                /\ pc' # "panicked"
          /\ (Builds(h) /\ SourceOk(VsFile(h)) /\ SourceOk(FsFile)) =>
                /\ is_some(render_bundle'[h])
                /\ render_bundle'[h].val.pipeline =
                      [vertex   |-> << "spirv", "Vertex", disk[cwd \o VsFile(h)] >>,
                       fragment |-> << "spirv", "Fragment", disk[cwd \o FsFile] >>]

C12_BuildResult == [][C12_Step]_vars

C12_Witness ==
    /\ (cwd \o VsFile("quad")) \notin DOMAIN disk
    /\ LoggedAs("create_bundle", "quad", FALSE)
    /\ pc = "update"

(***************************************************************************)
(* C13 -- Only content changes trigger a reload, as stated: an event that  *)
(* is not a content modification (a metadata-only Modify, a Create, a      *)
(* Remove, an Access) adds no path to the change set and causes no         *)
(* rebuild. Data and Name modifications are taken as content changes.      *)
(***************************************************************************)
ContentSet(items) ==
    LET mods == { i \in DOMAIN items :
                     items[i].ok /\ items[i].kind \in { "Modify(Data)", "Modify(Name)" } }
    IN  IF mods = {} THEN None ELSE Some(UNION { Range(items[i].paths) : i \in mods })

C13_OnlyContentChanges ==
    Returned =>
        /\ changed = ContentSet(got)
        /\ \A h \in Handlers :
              Logged("create_bundle", h) =>
                  /\ is_some(ContentSet(got))
                  /\ Triggers(h, ContentSet(got).val)

(***************************************************************************)
(* C14 -- Dispatch coverage and order: when collect_modified returned      *)
(* Some(set), files_changed is called once on each handler with that set,  *)
(* the quad first and the grass second, whether or not a handler matched   *)
(* and whether or not its rebuild failed; when it returned None no         *)
(* handler is called.                                                      *)
(***************************************************************************)
\* The calls a whole dispatch of the returned set makes.
CallsOfDispatch ==
    IF changed.tag = "Some"
    THEN << [h |-> "quad", changed |-> changed.val],
            [h |-> "grass", changed |-> changed.val] >>
    ELSE << >>

C14_DispatchCoverage ==
    /\ pc = "dispatch" =>
          /\ is_some(changed)
          /\ calls = SubSeq(CallsOfDispatch, 1, Len(calls))
          /\ Len(calls) < 2
    /\ DispatchDone => calls = CallsOfDispatch
    /\ (Returned /\ ~is_some(changed)) => calls = << >>

C14_Witness ==
    /\ DispatchDone
    /\ LoggedAs("create_bundle", "quad", FALSE)
    /\ ~Logged("create_bundle", "grass")
    /\ Len(calls) = 2
    /\ calls[2].h = "grass"

(***************************************************************************)
(* C15 -- Non-blocking drain: collect_modified never waits (while it runs  *)
(* its next step is always possible); on a queue that is empty, with the   *)
(* watcher alive, it returns at once, None when it received nothing; when  *)
(* it returns the queue is empty and everything queued at the call has     *)
(* been received; and, the watcher sending finitely often, it ends.        *)
(***************************************************************************)
C15_Step ==
    /\ (pc = "try_recv" /\ receiver = << >> /\ sender = "alive" /\ MainStep) =>
          /\ pc' \in { "update", "dispatch", "exited" }
          /\ changed' = set
          /\ got = << >> => changed' = None
    /\ (pc = "try_recv" /\ pc' \notin { "try_recv", "panicked" }) =>
          /\ receiver = << >>
          /\ Len(got) >= at_call

C15_NonBlockingDrain ==
    /\ [](pc = "try_recv" => ENABLED TryRecv)
    /\ [][C15_Step]_vars
    /\ (pc = "try_recv") ~> (pc # "try_recv")

C15_Witness ==
    /\ Returned
    /\ at_call >= 1
    /\ Len(got) > at_call
    /\ changed # None

(***************************************************************************)
(* C16 -- Watcher/render interleaving: whatever the main thread is doing,  *)
(* a send appends one event to the queue and changes nothing else; the     *)
(* queue otherwise changes only by a drain taking its head, which that     *)
(* drain receives; so the events are received once each, in the order      *)
(* sent; and, while the process runs, every event sent is received.        *)
(***************************************************************************)
C16_Step ==
    /\ receiver' # receiver =>
          \/ /\ Len(receiver') = Len(receiver) + 1
             /\ SubSeq(receiver', 1, Len(receiver)) = receiver
             /\ UNCHANGED << pc, idx, cwd, disk, set, changed, render_bundle,
                             rendered, control_flow, got, pre_bundle, ever_built,
                             frame_log, calls, outputs >>
          \/ /\ pc = "try_recv"
             /\ receiver # << >>
             /\ receiver' = Tail(receiver)
             /\ got' = Append(got, Head(receiver))
    /\ got' # got =>
          \/ got' = << >> /\ receiver' = receiver
          \/ /\ pc = "try_recv"
             /\ receiver # << >>
             /\ got' = Append(got, Head(receiver))
             /\ receiver' = Tail(receiver)

C16_Interleaving ==
    /\ [][C16_Step]_vars
    /\ []<>(receiver = << >> \/ pc \in { "panicked", "exited" })

C16_Witness ==
    /\ Returned
    /\ at_call = 0
    /\ Len(got) >= 2
    /\ LoggedAs("render", "-", TRUE)

(***************************************************************************)
(* C17 -- Deterministic instance generation: every execution of the grass  *)
(* create_bundle, at startup or at a reload, failed or not, generates the  *)
(* same sequence of instances, the one a generator seeded with 0 yields    *)
(* when position x, position z, width and height are drawn in this order.  *)
(***************************************************************************)
\* The k-th draw of a generator seeded with 0.
RECURSIVE Drawn(_)
Drawn(k) == IF k = 1 THEN 1 ELSE (5 * Drawn(k - 1) + 3) % 32

ExpectedInstances ==
    [i \in 1 .. InstanceCount |->
        [translation |-> << << "Uniform(-1.0, 1.0)", Drawn(4 * i - 3) >>, "0.0",
                            << "Uniform(-1.0, 1.0)", Drawn(4 * i - 2) >> >>,
         scale |-> << << "Uniform(0.02, 0.04)", Drawn(4 * i - 1) >>,
                      << "Uniform(0.04, 0.08)", Drawn(4 * i) >>,
                      << "Uniform(0.02, 0.04)", Drawn(4 * i - 1) >> >>]]

C17_DeterministicInstances ==
    /\ outputs \subseteq { ExpectedInstances }
    /\ instances_of("grass") = ExpectedInstances

C17_Witness ==
    /\ outputs # {}
    /\ is_some(pre_bundle["grass"])
    /\ LoggedAs("create_bundle", "grass", TRUE)
    /\ render_bundle["grass"] # pre_bundle["grass"]

(***************************************************************************)
(* C18 -- Recorded command sequence: every bundle create_bundle returns,   *)
(* and so every bundle in a slot or executed by a render pass, holds       *)
(* set_pipeline, set_vertex_buffer 0 (the mesh), set_vertex_buffer 1 (the  *)
(* instances), set_bind_group 0 (the uniforms) and one draw over all the   *)
(* vertices (6 for the quad, 3 for the grass) and all the instances (1     *)
(* for the quad, every generated one for the grass), in this order; a      *)
(* failed pipeline build returns no bundle.                                *)
(***************************************************************************)
ExpectedCommands(b) ==
    LET nv == IF b.label = "quad" THEN 6 ELSE 3
        ni == IF b.label = "quad" THEN 1 ELSE InstanceCount
    IN  << [op |-> "set_pipeline", pipeline |-> b.pipeline],
           [op |-> "set_vertex_buffer", slot |-> 0,
            buffer |-> [label |-> "Vertex Buffer", len |-> nv]],
           [op |-> "set_vertex_buffer", slot |-> 1,
            buffer |-> [label |-> "Instance Buffer", len |-> ni]],
           [op |-> "set_bind_group", index |-> 0, bind_group |-> "uniform_bind_group"],
           [op |-> "draw", vertices |-> << 0, nv >>, instances |-> << 0, ni >>] >>

C18_RecordedCommands ==
    /\ \A h \in Handlers :
          /\ LET b == create_bundle(h)
             IN  IF SourceOk(VsFile(h)) /\ SourceOk(FsFile)
                 THEN is_some(b) /\ b.val.label = h
                      /\ b.val.commands = ExpectedCommands(b.val)
                 ELSE b = None
          /\ is_some(render_bundle[h]) =>
                /\ render_bundle[h].val.label = h
                /\ render_bundle[h].val.commands = ExpectedCommands(render_bundle[h].val)
    /\ \A i \in DOMAIN rendered : rendered[i].commands = ExpectedCommands(rendered[i])
    /\ Len(VERTICES("quad")) = 6 /\ Len(VERTICES("grass")) = 3
    /\ Len(instances_of("quad")) = 1 /\ Len(instances_of("grass")) = InstanceCount

C18_Witness ==
    /\ LoggedAs("create_bundle", "grass", TRUE)
    /\ is_some(render_bundle["grass"])
    /\ render_bundle["grass"].val.commands[5].instances = << 0, InstanceCount >>
    /\ LoggedAs("create_bundle", "quad", FALSE)

(***************************************************************************)
(* C19 -- Input, as stated: just_released(k) iff deactivate(k) was called  *)
(* since the last update, just_pressed(k) iff activate(k) was called since *)
(* the last update, pressed(k) iff the last of activate(k), deactivate(k)  *)
(* was activate(k).                                                        *)
(***************************************************************************)
C19_InputSets ==
    \A k \in Keys :
        /\ Input_just_released(k) <=> k \in deactivated
        /\ Input_just_pressed(k) <=> k \in activated
        /\ Input_pressed(k) <=> last_op[k] = "activate"

(***************************************************************************)
(* C20 -- Monotonic availability: a slot that holds Some holds Some after  *)
(* every step, whatever is saved, reported, rebuilt or rendered.           *)
(***************************************************************************)
C20_Step == \A h \in Handlers : is_some(render_bundle[h]) => is_some(render_bundle'[h])

C20_MonotonicAvailability == [][C20_Step]_vars

C20_Witness ==
    /\ LoggedAs("create_bundle", "grass", FALSE)
    /\ LoggedAs("create_bundle", "quad", FALSE)
    /\ is_some(render_bundle["grass"])
    /\ is_some(render_bundle["quad"])
    /\ rendered # << >>

(***************************************************************************)
(* C21 -- A queued watcher error aborts the drain: the step that dequeues  *)
(* an Err ends the process with unwrap's panic; nothing is returned, and   *)
(* the paths of the Modify events the call had dequeued before are handed  *)
(* to no handler, then or later.                                           *)
(***************************************************************************)
C21_Step ==
    /\ ( /\ pc = "try_recv"
         /\ receiver # << >>
         /\ ~Head(receiver).ok
         /\ Len(receiver') < Len(receiver) ) =>
          /\ pc' = "panicked"
          /\ diagnostic' = Some("called Result::unwrap() on an Err value")
          /\ changed' = changed
          /\ calls' = calls
          /\ render_bundle' = render_bundle
    /\ pc # "panicked"

C21_ErrAbortsDrain ==
    /\ [][C21_Step]_vars
    /\ [](pc = "panicked" =>
            /\ changed = None
            /\ calls = << >>
            /\ \A h \in Handlers : ~Logged("files_changed", h) /\ ~Logged("create_bundle", h)
            /\ render_bundle = pre_bundle)

C21_Witness ==
    /\ pc = "panicked"
    /\ diagnostic = Some("called Result::unwrap() on an Err value")
    /\ Len(got) = 2
    /\ got[1].kind = "Modify(Data)"
    /\ got[1].paths = << << "R", "assets", "shaders", "quad.vert" >> >>
    /\ ~got[2].ok

(***************************************************************************)
(* C22 -- The reload runs in every frame: whatever State::render returned  *)
(* (Ok, Lost, Outdated, Timeout, OutOfMemory), the next step of the frame  *)
(* is the one call of collect_modified; a frame that has ended made that   *)
(* call once, after its render, and, when the call returned Some, has      *)
(* called every handler, also when the frame asked to exit.                *)
(***************************************************************************)
\* The frame has run to its end (and the process has not panicked in it).
FrameOver == InFrame /\ pc \in { "update", "exited" }

C22_Step ==
    (pc = "render" /\ pc' # pc) =>
        /\ pc' = "collect"
        /\ Len(frame_log') = Len(frame_log) + 1
        /\ frame_log'[Len(frame_log')].op = "render"
        /\ receiver' = receiver

C22_ReloadEveryFrame ==
    /\ [][C22_Step]_vars
    /\ [](pc = "collect" => Count("render", "-") = 1 /\ Count("collect_modified", "-") = 0)
    /\ [](FrameOver =>
            /\ Count("render", "-") = 1
            /\ Count("collect_modified", "-") = 1
            /\ \E i, j \in DOMAIN frame_log :
                  /\ i < j
                  /\ frame_log[i].op = "render"
                  /\ frame_log[j].op = "collect_modified"
            /\ changed # None =>
                  \A h \in Handlers :
                      \E i \in DOMAIN calls : calls[i].h = h /\ Some(calls[i].changed) = changed)
    /\ [](pc = "exited" => FrameOver /\ control_flow = "Exit")

C22_Witness ==
    /\ pc = "exited"
    /\ control_flow = "Exit"
    /\ LoggedAs("render", "-", FALSE)
    /\ at_call >= 1
    /\ LoggedAs("create_bundle", "quad", TRUE)
    /\ Len(calls) = 2

(***************************************************************************)
(* C23 -- No lost edit at startup: the watch is on before the handlers are *)
(* created, and from then until the first frame's drain begins nothing     *)
(* leaves the queue; that drain receives all that was queued when it was   *)
(* called, and, when it returns, every handler one of whose shader files   *)
(* is a path of a Modify event it received has attempted a rebuild in      *)
(* that first frame.  The only first drain that does not return is the one *)
(* that dequeued a watcher error (C21).                                    *)
(***************************************************************************)
\* queue is an initial part of longer.
IsPrefix(queue, longer) ==
    Len(queue) <= Len(longer) /\ SubSeq(longer, 1, Len(queue)) = queue

C23_Step ==
    /\ (~FirstFrameOver /\ pc \in { "create", "update", "render", "collect" }) =>
           IsPrefix(receiver, receiver')
    /\ (pc = "collect" /\ pc' # pc) => at_call' = Len(receiver) /\ got' = << >>

C23_NoLostEditAtStartup ==
    /\ [][C23_Step]_vars
    /\ []((~FirstFrameOver /\ pc \in { "create", "update", "render", "collect" }) => got = << >>)
    /\ [](pc = "panicked" => got # << >> /\ ~got[Len(got)].ok /\ calls = << >>)
    /\ [](FirstFrameOver =>
            /\ Len(got) >= at_call
            /\ \A i \in DOMAIN got :
                  (got[i].ok /\ got[i].kind \in { "Modify(Data)", "Modify(Metadata)", "Modify(Name)" }) =>
                      \A path \in Range(got[i].paths) :
                          /\ changed # None
                          /\ path \in changed.val
                          /\ \A h \in Handlers :
                                Triggers(h, { path }) => Logged("create_bundle", h))

C23_Witness ==
    /\ FirstFrameOver
    /\ cwd = << "R" >>
    /\ at_call >= 1
    /\ pre_bundle["quad"] # None
    /\ pre_bundle["quad"].val.pipeline.vertex = << "spirv", "Vertex", "srcA" >>
    /\ LoggedAs("create_bundle", "quad", TRUE)
    /\ render_bundle["quad"].val.pipeline.vertex = << "spirv", "Vertex", "srcB" >>
    /\ ~Logged("create_bundle", "grass")

====
